---- MODULE Spec2Model ----
(***************************************************************************)
(* Erasure-coded write path of erasure-createfile.go: erasureCreateFile    *)
(* reads a stream block by block, encodes every block into                 *)
(* DataBlocks + ParityBlocks shards (encodeData), appends the shards to    *)
(* the disks in parallel goroutines (appendFile), hashes what was written, *)
(* and finally records one checksum per valid erasureInfo.                 *)
(*                                                                         *)
(* Go slices and arrays are indexed from 0, and so are the functions of    *)
(* this model.  A []checkSumInfo is a slice header (arr, len, cap) over a  *)
(* backing array kept in heap, so that append behaves as Go's append.      *)
(***************************************************************************)
EXTENDS Integers, Sequences, FiniteSets, TLC

\* ---------------------------------------------------------------- bounds
DataBlocks == 2
BlockSize == 2
MaxLen == 4
MaxAbsent == 1

\* ------------------------------------------------------------ parameters
volume == "bucket"
path == "object/part.1"
partName == "part.1"

NilSlice == [arr |-> 0, len |-> 0, cap |-> 0]

\* The zero value of the struct erasureInfo.
ZeroInfo ==
  [DataBlocks |-> 0, ParityBlocks |-> 0, BlockSize |-> 0, Algorithm |-> "",
   Distribution |-> <<>>, Checksum |-> NilSlice]

\* The zero value of the struct checkSumInfo.
ZeroCheckSum == [Name |-> "", Algorithm |-> "", Hash |-> <<>>]

VARIABLES
  disks,        \* disks[i]: TRUE when the StorageAPI handle is not nil
  data,         \* the bytes the io.Reader delivers
  eInfos,       \* the input []erasureInfo
  writeQuorum,
  heap,         \* backing arrays of the []checkSumInfo slices
  eInfo,        \* the erasureInfo picked at line 33
  hashWriters,  \* state of each hash.Hash
  pc,           \* position of erasureCreateFile
  off,          \* bytes of data consumed by the reader
  reads,        \* calls of io.ReadFull so far
  size,
  blocks,       \* the shards of the current stripe
  caller,       \* which call of appendFile is running: "empty" or "block"
  stripe,       \* calls of appendFile so far
  index,        \* loop index of appendFile's spawn loop
  task,         \* position of the goroutine of each disk
  wErrs,
  checkSums,
  newEInfos,
  fidx,         \* loop index of the loop at line 89
  ret,          \* what erasureCreateFile returned
  log,          \* per disk, the AppendFile calls that returned
  hashBefore    \* hashWriters as they were when appendFile was entered

vars == <<disks, data, eInfos, writeQuorum, heap, eInfo, hashWriters, pc, off,
          reads, size, blocks, caller, stripe, index, task, wErrs, checkSums,
          newEInfos, fidx, ret, log, hashBefore>>

\* ---------------------------------------------------- hashing and hex
RECURSIVE HashWrite(_, _)
\* hash.Hash.Write: absorb the bytes into the running state, in order.
HashWrite(h, bytes) ==
  IF bytes = <<>> THEN h
  ELSE HashWrite((h * 31 + Head(bytes) + 1) % 65521, Tail(bytes))

\* sha512.New(): the initial state.
NewHash == 7

\* hash.Hash.Sum(nil): the digest of what was absorbed, as two bytes.
Sum(h) == LET d == (h * 3 + 1) % 65521 IN <<d \div 256, d % 256>>

RECURSIVE EncodeToString(_)
\* hex.EncodeToString: two hexadecimal digits per byte.
EncodeToString(bytes) ==
  IF bytes = <<>> THEN <<>>
  ELSE <<Head(bytes) \div 16, Head(bytes) % 16>> \o EncodeToString(Tail(bytes))

\* newHashWriters(diskCount): one fresh hash per disk.
newHashWriters(diskCount) == [k \in 0..(diskCount - 1) |-> NewHash]

\* ------------------------------------------------------ erasure infos
Range(f) == {f[x] : x \in DOMAIN f}

IsValid(e) ==
  /\ e.DataBlocks > 0
  /\ e.ParityBlocks > 0
  /\ e.BlockSize > 0
  /\ e.Algorithm # ""
  /\ DOMAIN e.Distribution = 0..(e.DataBlocks + e.ParityBlocks - 1)
  /\ Range(e.Distribution) = 1..(e.DataBlocks + e.ParityBlocks)

\* pickValidErasureInfo: the first valid one, by position; the result is a
\* plain erasureInfo value, the zero value when there is none.
pickValidErasureInfo(infos) ==
  IF \E i \in DOMAIN infos : IsValid(infos[i])
  THEN LET first == CHOOSE i \in DOMAIN infos :
                      /\ IsValid(infos[i])
                      /\ \A j \in DOMAIN infos : IsValid(infos[j]) => i <= j
       IN infos[first]
  ELSE ZeroInfo

\* ------------------------------------------------------------ encoding
\* reedsolomon Split: dataBlocks shards of ceil(len / dataBlocks) bytes, the
\* tail padded with zeroes.
SplitShard(buffer, dataBlocks, k) ==
  LET perShard == (Len(buffer) + dataBlocks - 1) \div dataBlocks
  IN [p \in 1..perShard |->
        IF k * perShard + p <= Len(buffer) THEN buffer[k * perShard + p] ELSE 0]

RECURSIVE Combine(_, _, _, _)
\* One parity byte: a linear combination of the data bytes at one position.
Combine(shards, k, j, p) ==
  IF k < 0 THEN 0
  ELSE ((k + j + 1) * shards[k][p] + Combine(shards, k - 1, j, p)) % 256

\* An error value is a tuple that starts with its name; nil is the empty one.
nil == <<>>

\* encodeData: <<blocks, error>>.  reedsolomon.New refuses a geometry without
\* data or parity blocks, Split refuses an empty buffer.
encodeData(dataBuffer, dataBlocks, parityBlocks) ==
  IF dataBlocks <= 0 \/ parityBlocks <= 0 THEN <<nil, <<"ErrInvShardNum">>>>
  ELSE IF Len(dataBuffer) = 0 THEN <<nil, <<"ErrShortData">>>>
  ELSE
    LET perShard == (Len(dataBuffer) + dataBlocks - 1) \div dataBlocks
        dataShards == [k \in 0..(dataBlocks - 1) |->
                         SplitShard(dataBuffer, dataBlocks, k)]
        enBlocks == [k \in 0..(dataBlocks + parityBlocks - 1) |->
                       IF k < dataBlocks THEN dataShards[k]
                       ELSE [p \in 1..perShard |->
                               Combine(dataShards, dataBlocks - 1,
                                       k - dataBlocks, p)]]
    IN <<enBlocks, nil>>

\* --------------------------------------------------------------- reader
\* io.ReadFull(data, buf) on a reader that does not fail: <<n, err>>.
ReadFull(remaining, bufLen) ==
  IF bufLen = 0 THEN <<0, "nil">>
  ELSE IF remaining = 0 THEN <<0, "EOF">>
  ELSE IF remaining < bufLen THEN <<remaining, "ErrUnexpectedEOF">>
  ELSE <<bufLen, "nil">>

\* ------------------------------------------------------- checksum slices
\* The elements of a []checkSumInfo, as the program reads them.
Elems(h, s) == IF s.arr = 0 THEN <<>> ELSE SubSeq(h[s.arr], 1, s.len)

\* Go's append of one element: in place when the backing array has room,
\* else into a newly allocated array.  <<heap, slice>>.
append(h, s, x) ==
  IF s.len < s.cap
  THEN <<[h EXCEPT ![s.arr] = [@ EXCEPT ![s.len + 1] = x]],
         [s EXCEPT !.len = s.len + 1]>>
  ELSE LET newcap == IF s.cap = 0 THEN 1 ELSE 2 * s.cap
           fresh == [p \in 1..newcap |->
                       IF p <= s.len THEN h[s.arr][p]
                       ELSE IF p = s.len + 1 THEN x ELSE ZeroCheckSum]
       IN <<Append(h, fresh),
            [arr |-> Len(h) + 1, len |-> s.len + 1, cap |-> newcap]>>

\* --------------------------------------------------------------- inputs
Idx == DOMAIN disks

\* Distribution vectors tried: a rotation and the reversal of 1..n.
Dists(n) ==
  {[i \in 0..(n - 1) |-> ((i + 1) % n) + 1], [i \in 0..(n - 1) |-> n - i]}

\* How the callers' checksum lists lie in memory: all nil; one full array
\* each; every erasureInfo a copy of the same one, whose array has room for
\* one more entry.
Layouts == {"nil", "own", "copied"}

\* The checksum entry of an earlier part.
PriorEntry(i) ==
  [Name |-> "part.0", Algorithm |-> "sha512",
   Hash |-> EncodeToString(Sum(HashWrite(NewHash, <<i + 1>>)))]

InitHeap(n, layout) ==
  IF layout = "nil" THEN <<>>
  ELSE IF layout = "own" THEN [a \in 1..n |-> <<PriorEntry(a - 1)>>]
  ELSE <<<<PriorEntry(0), ZeroCheckSum>>>>

InitSlice(i, layout) ==
  IF layout = "nil" THEN NilSlice
  ELSE IF layout = "own" THEN [arr |-> i + 1, len |-> 1, cap |-> 1]
  ELSE [arr |-> 1, len |-> 1, cap |-> 2]

\* Which of the erasureInfos are valid: all, all but one, or none.
Validities(n) ==
  {[i \in 0..(n - 1) |-> TRUE], [i \in 0..(n - 1) |-> FALSE]}
    \cup {[i \in 0..(n - 1) |-> i # hole] : hole \in 0..(n - 1)}

\* The geometry tried has one parity block.
Parities == {1}

Init ==
  \E par \in Parities, len \in 0..MaxLen, layout \in Layouts :
    \E present \in [0..(DataBlocks + par - 1) -> BOOLEAN],
       valid \in Validities(DataBlocks + par),
       dist \in Dists(DataBlocks + par),
       q \in {DataBlocks + par - 1, DataBlocks + par} :
      /\ Cardinality({i \in DOMAIN present : ~present[i]}) <= MaxAbsent
      /\ disks = present
      /\ data = [p \in 1..len |-> p]
      /\ eInfos = [i \in DOMAIN valid |->
                     IF valid[i]
                     THEN [DataBlocks |-> DataBlocks, ParityBlocks |-> par,
                           BlockSize |-> BlockSize,
                           Algorithm |-> "klauspost/reedsolomon/vandermonde",
                           Distribution |-> dist,
                           Checksum |-> InitSlice(i, layout)]
                     ELSE ZeroInfo]
      /\ writeQuorum = q
      /\ heap = InitHeap(DataBlocks + par, layout)
      /\ eInfo = pickValidErasureInfo(eInfos)
      /\ hashWriters = newHashWriters(DataBlocks + par)
      /\ pc = "read"
      /\ off = 0
      /\ reads = 0
      /\ size = 0
      /\ blocks = <<>>
      /\ caller = "none"
      /\ stripe = 0
      /\ index = 0
      /\ task = [i \in DOMAIN present |-> "none"]
      /\ wErrs = [i \in DOMAIN present |-> nil]
      /\ checkSums = <<>>
      /\ newEInfos = <<>>
      /\ fidx = 0
      /\ ret = [newEInfos |-> nil, size |-> 0, err |-> nil]
      /\ log = [i \in DOMAIN present |-> <<>>]
      /\ hashBefore = hashWriters

\* ----------------------------------------------------- erasureCreateFile
\* ReturnErr with the bytes read so far reported instead of 0.
ReturnErrWithSize(err) ==
  /\ ret' = [newEInfos |-> nil, size |-> size, err |-> err]
  /\ pc' = "done"

\* return nil, 0, err
ReturnErr(err) ==
  /\ ret' = [newEInfos |-> nil, size |-> 0, err |-> err]
  /\ pc' = "done"

\* Entry of appendFile: a fresh WaitGroup and a fresh wErrs.
CallAppendFile(enBlocks, from) ==
  /\ blocks' = enBlocks
  /\ caller' = from
  /\ stripe' = stripe + 1
  /\ index' = 0
  /\ task' = [i \in Idx |-> "none"]
  /\ wErrs' = [i \in Idx |-> nil]
  /\ hashBefore' = hashWriters
  /\ pc' = "spawn"

\* ReadEOF without the test of size: the zero-byte write is made at every EOF.
ReadEOFAlwaysWrites ==
  /\ pc = "read"
  /\ ReadFull(Len(data) - off, eInfo.BlockSize)[2] = "EOF"
  /\ reads' = reads + 1
  /\ CallAppendFile([k \in Idx |-> <<>>], "empty")
  /\ UNCHANGED <<disks, data, eInfos, writeQuorum, heap, eInfo, hashWriters,
                 off, size, checkSums, newEInfos, fidx, ret, log>>

\* ReadEOF without the zero-byte write: the loop is left at once.
ReadEOFNeverWrites ==
  /\ pc = "read"
  /\ ReadFull(Len(data) - off, eInfo.BlockSize)[2] = "EOF"
  /\ reads' = reads + 1
  /\ pc' = "checksums"
  /\ UNCHANGED <<blocks, caller, stripe, index, task, wErrs, hashBefore>>
  /\ UNCHANGED <<disks, data, eInfos, writeQuorum, heap, eInfo, hashWriters,
                 off, size, checkSums, newEInfos, fidx, ret, log>>

\* io.ReadFull returns io.EOF: nothing was read.
ReadEOF ==
  /\ pc = "read"
  /\ ReadFull(Len(data) - off, eInfo.BlockSize)[2] = "EOF"
  /\ reads' = reads + 1
  /\ IF size = 0
     THEN /\ CallAppendFile([k \in Idx |-> <<>>], "empty")
     ELSE /\ pc' = "checksums"
          /\ UNCHANGED <<blocks, caller, stripe, index, task, wErrs,
                         hashBefore>>
  /\ UNCHANGED <<disks, data, eInfos, writeQuorum, heap, eInfo, hashWriters,
                 off, size, checkSums, newEInfos, fidx, ret, log>>

\* The reader fails with an error that is neither io.EOF nor
\* io.ErrUnexpectedEOF (io.ReadFull calls the reader only for a buffer that is
\* not empty).
ReadFail ==
  /\ pc = "read"
  /\ eInfo.BlockSize > 0
  /\ reads' = reads + 1
  /\ ReturnErr(<<"ReadFailure">>)
  /\ UNCHANGED <<disks, data, eInfos, writeQuorum, heap, eInfo, hashWriters,
                 off, size, blocks, caller, stripe, index, task, wErrs,
                 checkSums, newEInfos, fidx, log, hashBefore>>

\* io.ReadFull returns n bytes, with nil or io.ErrUnexpectedEOF: the block is
\* encoded and handed to appendFile.
ReadBlock ==
  /\ pc = "read"
  /\ LET r == ReadFull(Len(data) - off, eInfo.BlockSize)
         n == r[1]
         enc == encodeData(SubSeq(data, off + 1, off + n), eInfo.DataBlocks,
                           eInfo.ParityBlocks)
     IN /\ r[2] \in {"nil", "ErrUnexpectedEOF"}
        /\ reads' = reads + 1
        /\ off' = off + n
        /\ IF enc[2] # nil
           THEN /\ ReturnErr(enc[2])
                /\ size' = size + n
                /\ UNCHANGED <<blocks, caller, stripe, index, task, wErrs,
                               hashBefore>>
           ELSE /\ size' = size + n
                /\ CallAppendFile(enc[1], "block")
                /\ UNCHANGED ret
  /\ UNCHANGED <<disks, data, eInfos, writeQuorum, heap, eInfo, hashWriters,
                 checkSums, newEInfos, fidx, log>>

\* ------------------------------------------------------------ appendFile
\* BlockIndex without the distribution: disk i gets block i.
BlockIndexOfDisk(distribution, i) == i

\* Pick the block from the distribution.
BlockIndex(distribution, i) == distribution[i] - 1

\* Spawn that also skips a disk whose erasureInfo is not valid.
SpawnValidOnly ==
  /\ pc = "spawn"
  /\ index \in Idx
  /\ task' = IF disks[index] /\ IsValid(eInfos[index])
             THEN [task EXCEPT ![index] = "inflight"] ELSE task
  /\ index' = index + 1
  /\ pc' = IF index + 1 \in Idx THEN "spawn" ELSE "wait"
  /\ UNCHANGED <<disks, data, eInfos, writeQuorum, heap, eInfo, hashWriters,
                 off, reads, size, blocks, caller, stripe, wErrs, checkSums,
                 newEInfos, fidx, ret, log, hashBefore>>

\* One iteration of the loop at line 130: a nil disk is skipped, any other
\* gets wg.Add(1) and a goroutine, which calls disk.AppendFile with its block.
Spawn ==
  /\ pc = "spawn"
  /\ index \in Idx
  /\ task' = IF disks[index] THEN [task EXCEPT ![index] = "inflight"] ELSE task
  /\ index' = index + 1
  /\ pc' = IF index + 1 \in Idx THEN "spawn" ELSE "wait"
  /\ UNCHANGED <<disks, data, eInfos, writeQuorum, heap, eInfo, hashWriters,
                 off, reads, size, blocks, caller, stripe, wErrs, checkSums,
                 newEInfos, fidx, ret, log, hashBefore>>

\* AppendFail with the error dropped instead of stored in wErrs[i].
AppendFailUnrecorded(i) ==
  /\ task[i] = "inflight"
  /\ task' = [task EXCEPT ![i] = "done"]
  /\ log' = [log EXCEPT ![i] = Append(@,
               [stripe |-> stripe, ok |-> FALSE,
                block |-> BlockIndex(eInfo.Distribution, i),
                bytes |-> blocks[BlockIndex(eInfo.Distribution, i)]])]
  /\ UNCHANGED <<disks, data, eInfos, writeQuorum, heap, eInfo, hashWriters,
                 pc, off, reads, size, blocks, caller, stripe, index, wErrs,
                 checkSums, newEInfos, fidx, ret, hashBefore>>

\* AppendFail with the hash of the block updated before the error is looked at.
AppendFailHashed(i) ==
  /\ task[i] = "inflight"
  /\ LET blockIndex == BlockIndex(eInfo.Distribution, i)
     IN hashWriters' = [hashWriters EXCEPT
                          ![blockIndex] = HashWrite(@, blocks[blockIndex])]
  /\ wErrs' = [wErrs EXCEPT ![i] = <<"errDiskFull">>]
  /\ task' = [task EXCEPT ![i] = "done"]
  /\ log' = [log EXCEPT ![i] = Append(@,
               [stripe |-> stripe, ok |-> FALSE,
                block |-> BlockIndex(eInfo.Distribution, i),
                bytes |-> blocks[BlockIndex(eInfo.Distribution, i)]])]
  /\ UNCHANGED <<disks, data, eInfos, writeQuorum, heap, eInfo, pc, off,
                 reads, size, blocks, caller, stripe, index, checkSums,
                 newEInfos, fidx, ret, hashBefore>>

\* AppendFail with the disk taken out of the write after an error.
AppendFailDropsDisk(i) ==
  /\ task[i] = "inflight"
  /\ wErrs' = [wErrs EXCEPT ![i] = <<"errDiskFull">>]
  /\ task' = [task EXCEPT ![i] = "done"]
  /\ disks' = [disks EXCEPT ![i] = FALSE]
  /\ log' = [log EXCEPT ![i] = Append(@,
               [stripe |-> stripe, ok |-> FALSE,
                block |-> BlockIndex(eInfo.Distribution, i),
                bytes |-> blocks[BlockIndex(eInfo.Distribution, i)]])]
  /\ UNCHANGED <<data, eInfos, writeQuorum, heap, eInfo, hashWriters, pc,
                 off, reads, size, blocks, caller, stripe, index, checkSums,
                 newEInfos, fidx, ret, hashBefore>>

\* AppendFail with the call made again after an error.
AppendFailRetried(i) ==
  /\ task[i] = "inflight"
  /\ log' = [log EXCEPT ![i] = Append(@,
               [stripe |-> stripe, ok |-> FALSE,
                block |-> BlockIndex(eInfo.Distribution, i),
                bytes |-> blocks[BlockIndex(eInfo.Distribution, i)]])]
  /\ UNCHANGED <<disks, data, eInfos, writeQuorum, heap, eInfo, hashWriters,
                 pc, off, reads, size, blocks, caller, stripe, index, task,
                 wErrs, checkSums, newEInfos, fidx, ret, hashBefore>>

\* disk.AppendFile returns an error: it is stored in wErrs[i] and the
\* goroutine ends.
AppendFail(i) ==
  /\ task[i] = "inflight"
  /\ wErrs' = [wErrs EXCEPT ![i] = <<"errDiskFull">>]
  /\ task' = [task EXCEPT ![i] = "done"]
  /\ log' = [log EXCEPT ![i] = Append(@,
               [stripe |-> stripe, ok |-> FALSE,
                block |-> BlockIndex(eInfo.Distribution, i),
                bytes |-> blocks[BlockIndex(eInfo.Distribution, i)]])]
  /\ UNCHANGED <<disks, data, eInfos, writeQuorum, heap, eInfo, hashWriters,
                 pc, off, reads, size, blocks, caller, stripe, index,
                 checkSums, newEInfos, fidx, ret, hashBefore>>

\* disk.AppendFile returns nil: the block is on the disk.
AppendOk(i) ==
  /\ task[i] = "inflight"
  /\ task' = [task EXCEPT ![i] = "hash"]
  /\ log' = [log EXCEPT ![i] = Append(@,
               [stripe |-> stripe, ok |-> TRUE,
                block |-> BlockIndex(eInfo.Distribution, i),
                bytes |-> blocks[BlockIndex(eInfo.Distribution, i)]])]
  /\ UNCHANGED <<disks, data, eInfos, writeQuorum, heap, eInfo, hashWriters,
                 pc, off, reads, size, blocks, caller, stripe, index, wErrs,
                 checkSums, newEInfos, fidx, ret, hashBefore>>

\* HashBlock in a goroutine that ends without wg.Done().
HashBlockNoDone(i) ==
  /\ task[i] = "hash"
  /\ LET blockIndex == BlockIndex(eInfo.Distribution, i)
     IN hashWriters' = [hashWriters EXCEPT
                          ![blockIndex] = HashWrite(@, blocks[blockIndex])]
  /\ wErrs' = [wErrs EXCEPT ![i] = nil]
  /\ task' = [task EXCEPT ![i] = "ended"]
  /\ UNCHANGED <<disks, data, eInfos, writeQuorum, heap, eInfo, pc, off,
                 reads, size, blocks, caller, stripe, index, checkSums,
                 newEInfos, fidx, ret, log, hashBefore>>

\* HashBlock with one hash shared by all the goroutines.
HashBlockShared(i) ==
  /\ task[i] = "hash"
  /\ hashWriters' = [hashWriters EXCEPT
                       ![0] = HashWrite(@, blocks[BlockIndex(eInfo.Distribution,
                                                             i)])]
  /\ wErrs' = [wErrs EXCEPT ![i] = nil]
  /\ task' = [task EXCEPT ![i] = "done"]
  /\ UNCHANGED <<disks, data, eInfos, writeQuorum, heap, eInfo, pc, off,
                 reads, size, blocks, caller, stripe, index, checkSums,
                 newEInfos, fidx, ret, log, hashBefore>>

\* After a successful append: the hash of the block is updated, wErrs[i] is
\* set to nil and the goroutine ends.
HashBlock(i) ==
  /\ task[i] = "hash"
  /\ LET blockIndex == BlockIndex(eInfo.Distribution, i)
     IN hashWriters' = [hashWriters EXCEPT
                          ![blockIndex] = HashWrite(@, blocks[blockIndex])]
  /\ wErrs' = [wErrs EXCEPT ![i] = nil]
  /\ task' = [task EXCEPT ![i] = "done"]
  /\ UNCHANGED <<disks, data, eInfos, writeQuorum, heap, eInfo, pc, off,
                 reads, size, blocks, caller, stripe, index, checkSums,
                 newEInfos, fidx, ret, log, hashBefore>>

\* A wg.Wait() that returns at once.
WaitOverAtOnce(t) == TRUE

\* wg.Wait() returns when every goroutine that was added has ended.
WaitOver(t) == \A i \in DOMAIN t : t[i] \in {"none", "done"}

\* isQuorum(errs, minQuorumCount): enough of the errs are nil.
isQuorum(errs, minQuorumCount) ==
  Cardinality(DOMAIN errs)
    - Cardinality({i \in DOMAIN errs : errs[i] # nil}) >= minQuorumCount

\* toObjectErr(errXLWriteQuorum, volume, path)
toObjectErr(err, vol, obj) == <<err, vol, obj>>

\* Wait with the quorum test the wrong way round.
WaitInverted ==
  /\ pc = "wait"
  /\ WaitOver(task)
  /\ IF isQuorum(wErrs, writeQuorum)
     THEN ReturnErr(toObjectErr("errXLWriteQuorum", volume, path))
     ELSE /\ pc' = IF caller = "empty" THEN "checksums" ELSE "read"
          /\ UNCHANGED ret
  /\ UNCHANGED <<disks, data, eInfos, writeQuorum, heap, eInfo, hashWriters,
                 off, reads, size, blocks, caller, stripe, index, task, wErrs,
                 checkSums, newEInfos, fidx, log, hashBefore>>

\* Lines 155-161 and the return into erasureCreateFile: after the empty
\* write the loop is left, after a block the next block is read.
Wait ==
  /\ pc = "wait"
  /\ WaitOver(task)
  /\ IF ~isQuorum(wErrs, writeQuorum)
     THEN ReturnErr(toObjectErr("errXLWriteQuorum", volume, path))
     ELSE /\ pc' = IF caller = "empty" THEN "checksums" ELSE "read"
          /\ UNCHANGED ret
  /\ UNCHANGED <<disks, data, eInfos, writeQuorum, heap, eInfo, hashWriters,
                 off, reads, size, blocks, caller, stripe, index, task, wErrs,
                 checkSums, newEInfos, fidx, log, hashBefore>>

\* ------------------------------------------------------------- finalizer
\* The entry stored at line 80 for one block index.
CheckSumOf(hw, blockIndex) ==
  [Name |-> partName, Algorithm |-> "sha512",
   Hash |-> EncodeToString(Sum(hw[blockIndex]))]

\* Lines 77-85: checkSums[distribution[index]-1] is set for every disk, the
\* other entries keep the zero value.
SaveCheckSums ==
  /\ pc = "checksums"
  /\ checkSums' = [k \in Idx |->
                     IF \E i \in Idx : BlockIndex(eInfo.Distribution, i) = k
                     THEN CheckSumOf(hashWriters, k) ELSE ZeroCheckSum]
  /\ newEInfos' = [i \in Idx |-> ZeroInfo]
  /\ fidx' = 0
  /\ pc' = "infos"
  /\ UNCHANGED <<disks, data, eInfos, writeQuorum, heap, eInfo, hashWriters,
                 off, reads, size, blocks, caller, stripe, index, task, wErrs,
                 ret, log, hashBefore>>

\* One iteration of the loop at line 89.
UpdateInfo ==
  /\ pc = "infos"
  /\ fidx \in DOMAIN eInfos
  /\ IF IsValid(eInfos[fidx])
     THEN LET blockIndex == BlockIndex(eInfos[fidx].Distribution, fidx)
              app == append(heap, eInfos[fidx].Checksum, checkSums[blockIndex])
          IN /\ heap' = app[1]
             /\ newEInfos' = [newEInfos EXCEPT
                                ![fidx] = [eInfos[fidx] EXCEPT
                                             !.Checksum = app[2]]]
     ELSE UNCHANGED <<heap, newEInfos>>
  /\ fidx' = fidx + 1
  /\ UNCHANGED <<disks, data, eInfos, writeQuorum, eInfo, hashWriters, pc,
                 off, reads, size, blocks, caller, stripe, index, task, wErrs,
                 checkSums, ret, log, hashBefore>>

\* return newEInfos, size, nil
Return ==
  /\ pc = "infos"
  /\ fidx \notin DOMAIN eInfos
  /\ ret' = [newEInfos |-> newEInfos, size |-> size, err |-> nil]
  /\ pc' = "done"
  /\ UNCHANGED <<disks, data, eInfos, writeQuorum, heap, eInfo, hashWriters,
                 off, reads, size, blocks, caller, stripe, index, task, wErrs,
                 checkSums, newEInfos, fidx, log, hashBefore>>

Next ==
  \/ ReadEOF
  \/ ReadFail
  \/ ReadBlock
  \/ Spawn
  \/ \E i \in Idx : AppendFail(i)
  \/ \E i \in Idx : AppendOk(i)
  \/ \E i \in Idx : HashBlock(i)
  \/ Wait
  \/ SaveCheckSums
  \/ UpdateInfo
  \/ Return

Spec == Init /\ [][Next]_vars

\* ========================================================== properties
\* The error appendFile returns when the quorum is lost.
WriteQuorumLost == toObjectErr("errXLWriteQuorum", volume, path)

Present == {i \in Idx : disks[i]}

\* The disks whose AppendFile call of stripe t returned an error.
FailedIn(t) ==
  {i \in Idx : \E p \in DOMAIN log[i] : log[i][p].stripe = t /\ ~log[i][p].ok}

\* The disks whose AppendFile call of stripe t returned nil.
WrittenIn(t) ==
  {i \in Idx : \E p \in DOMAIN log[i] : log[i][p].stripe = t /\ log[i][p].ok}

\* appendFile has returned from its latest call (or was never called).
AppendFileOver == pc \notin {"spawn", "wait"}

\* C1: for any stripe, the nil disks count as failed writes: with fewer than
\* writeQuorum disks present the first call of appendFile ends in
\* WriteQuorumLost, whatever the appends of the present disks return.
C1_AbsentCountAsFailures ==
  (Cardinality(Present) < writeQuorum /\ stripe >= 1 /\ AppendFileOver)
    => (pc = "done" /\ ret.err = WriteQuorumLost)

\* C2: with F the number of disks whose append returned an error in a stripe,
\* appendFile returns nil if and only if N - F >= writeQuorum, and else
\* WriteQuorumLost for (volume, path): every stripe but the latest passed, and
\* so did the latest unless the write ended in WriteQuorumLost.
C2_QuorumPredicate ==
  /\ \A t \in 1..stripe :
       (t < stripe \/ (AppendFileOver /\ ret.err # WriteQuorumLost))
         => Cardinality(Idx) - Cardinality(FailedIn(t)) >= writeQuorum
  /\ (pc = "done" /\ ret.err = WriteQuorumLost)
       => /\ stripe >= 1
          /\ Cardinality(Idx) - Cardinality(FailedIn(stripe)) < writeQuorum

\* A stripe passed the quorum although one of its appends returned an error.
C2_Witness ==
  /\ pc = "read"
  /\ stripe >= 1
  /\ FailedIn(stripe) # {}
  /\ WrittenIn(stripe) # {}

\* C3: in every stripe and for every disk i, the hash at distribution[i]-1 is
\* updated with the block only after AppendFile of disk i has returned nil; as
\* long as it has not, and for good if it returned an error, that hash is what
\* it was when the stripe began.
C3_HashAfterAppend ==
  IsValid(eInfo) =>
    \A i \in Idx :
      LET k == BlockIndex(eInfo.Distribution, i)
      IN hashWriters[k] =
           IF task[i] = "done" /\ i \in WrittenIn(stripe)
           THEN HashWrite(hashBefore[k], blocks[k])
           ELSE hashBefore[k]

\* A stripe of non-empty blocks is over with one append failed and one hashed.
C3_Witness ==
  /\ pc = "wait"
  /\ WaitOver(task)
  /\ \E i, j \in Idx :
       /\ i \in FailedIn(stripe)
       /\ j \in WrittenIn(stripe)
       /\ blocks[BlockIndex(eInfo.Distribution, i)] # <<>>
       /\ hashWriters[BlockIndex(eInfo.Distribution, j)]
            # hashBefore[BlockIndex(eInfo.Distribution, j)]

RECURSIVE Written(_)
\* The bytes the successful AppendFile calls of a log put on the disk.
Written(entries) ==
  IF entries = <<>> THEN <<>>
  ELSE (IF Head(entries).ok THEN Head(entries).bytes ELSE <<>>)
         \o Written(Tail(entries))

\* The hex digest of a byte string hashed in one go.
DigestOf(bytes) == EncodeToString(Sum(HashWrite(NewHash, bytes)))

\* The write has returned without error.
Succeeded == pc = "done" /\ ret.err = nil

\* The checksum list of the erasureInfo returned for disk i.
OutCheckSums(i) == Elems(heap, ret.newEInfos[i].Checksum)

\* C4: after a successful write, for every disk i with a valid erasureInfo
\* whose append succeeded in every stripe, the digest of the checksum entry
\* that ends the returned erasureInfo i is the hash of the blocks appended to
\* disk i, concatenated in stripe order.
C4_HashAgreement ==
  Succeeded =>
    \A i \in Idx :
      (IsValid(eInfos[i]) /\ \A t \in 1..stripe : i \in WrittenIn(t))
        => /\ OutCheckSums(i) # <<>>
           /\ OutCheckSums(i)[Len(OutCheckSums(i))].Hash
                = DigestOf(Written(log[i]))

\* C5: a zero-byte stream, written with a valid geometry, makes exactly one
\* call of appendFile, in which every present disk gets exactly one append, of
\* zero bytes, and no nil disk gets any; the write returns size 0.
C5_EmptyObject ==
  (data = <<>> /\ IsValid(eInfo) /\ ret.err # <<"ReadFailure">>)
    => /\ stripe <= 1
       /\ \A i \in Idx : Len(log[i]) <= 1
       /\ pc = "done"
            => /\ stripe = 1
               /\ ret.size = 0
               /\ \A i \in Idx :
                    IF disks[i]
                    THEN /\ Len(log[i]) = 1
                         /\ log[i][1].stripe = 1
                         /\ log[i][1].bytes = <<>>
                    ELSE log[i] = <<>>

\* A zero-byte stream was written with success although a disk is nil.
C5_Witness == Succeeded /\ data = <<>> /\ Present # Idx /\ Present # {}

\* The bytes of the stream that stripe t encodes.
StripeBytes(t) ==
  IF t * eInfo.BlockSize <= Len(data) THEN eInfo.BlockSize
  ELSE Len(data) - (t - 1) * eInfo.BlockSize

\* C6: a successful write of a stream of L > 0 bytes with block size B makes
\* exactly ceil(L/B) calls of appendFile, of full blocks followed by at most
\* one block of L mod B bytes, none of them of zero bytes, and returns size L.
C6_StripeCount ==
  (Succeeded /\ Len(data) > 0)
    => /\ stripe = (Len(data) + eInfo.BlockSize - 1) \div eInfo.BlockSize
       /\ ret.size = Len(data)
       /\ \A i \in Idx : \A p \in DOMAIN log[i] :
            /\ StripeBytes(log[i][p].stripe) > 0
            /\ Len(log[i][p].bytes)
                 = (StripeBytes(log[i][p].stripe) + eInfo.DataBlocks - 1)
                     \div eInfo.DataBlocks

\* A stream of a full block and a short one was written with success.
C6_Witness ==
  /\ Succeeded
  /\ Len(data) > eInfo.BlockSize
  /\ Len(data) % eInfo.BlockSize # 0
  /\ stripe = 2

\* C7: every append of a stripe has returned, and its goroutine has ended,
\* before appendFile returns, so before the next block is read and before any
\* append of the next stripe is issued: a goroutine runs only inside the call
\* of appendFile that started it, and what it logs belongs to that call.
C7_StripeBarrier ==
  /\ (\E i \in Idx : task[i] \in {"inflight", "hash"})
       => (pc \in {"spawn", "wait"} /\ reads = stripe)
  /\ \A i \in Idx : \A p \in DOMAIN log[i] :
       /\ log[i][p].stripe <= stripe
       /\ task[i] = "inflight" => log[i][p].stripe < stripe
       /\ \A r \in DOMAIN log[i] : p < r => log[i][p].stripe < log[i][r].stripe

\* An append of the second stripe is in flight after the appends of the first.
C7_Witness ==
  /\ stripe = 2
  /\ \E i \in Idx : task[i] = "inflight" /\ Len(log[i]) = 1
  /\ \E j \in Idx : j \in FailedIn(1)

\* C8: when no input erasureInfo is valid the write fails with the
\* GeometryUnavailable error and no disk gets an append.
C8_GeometryUnavailable ==
  (pc = "done" /\ \A i \in Idx : ~IsValid(eInfos[i]))
    => /\ ret.err = <<"GeometryUnavailable">>
       /\ \A i \in Idx : log[i] = <<>>

\* C9: a successful write returns one slot per disk: for a valid input
\* erasureInfo the same erasureInfo with exactly one checksum entry appended,
\* {partName, "sha512", digest of hash distribution[i]-1}; for an invalid one
\* the zero erasureInfo.
C9_FinalizerShape ==
  Succeeded =>
    /\ DOMAIN ret.newEInfos = Idx
    /\ \A i \in Idx :
         IF IsValid(eInfos[i])
         THEN /\ [ret.newEInfos[i] EXCEPT !.Checksum = NilSlice]
                   = [eInfos[i] EXCEPT !.Checksum = NilSlice]
              /\ OutCheckSums(i)
                   = Append(Elems(heap, eInfos[i].Checksum),
                            CheckSumOf(hashWriters,
                                       BlockIndex(eInfos[i].Distribution, i)))
         ELSE ret.newEInfos[i] = ZeroInfo

\* C10: a read error, a codec error or a lost quorum ends the write at once
\* with that error, no erasureInfos and size 0; no goroutine is left running
\* and no call of appendFile follows the failing step; the appends made
\* before stay on the disks.
C10_FatalErrors ==
  (pc = "done" /\ ret.err # nil)
    => /\ ret.newEInfos = nil
       /\ ret.size = 0
       /\ WaitOver(task)
       /\ stripe = IF ret.err = WriteQuorumLost THEN reads ELSE reads - 1
       /\ \A i \in Present : \A t \in 1..stripe :
            Cardinality({p \in DOMAIN log[i] : log[i][p].stripe = t}) = 1

\* The quorum was lost in the second stripe, after appends of the first.
C10_Witness ==
  /\ pc = "done"
  /\ ret.err = WriteQuorumLost
  /\ stripe = 2
  /\ size > 0
  /\ WrittenIn(1) # {}

\* The blocks appendFile is given in its call number t: those of the t-th
\* block of the stream, or empty ones for a stream without bytes.
StripeBlocks(t) ==
  IF data = <<>> THEN [k \in Idx |-> <<>>]
  ELSE encodeData(SubSeq(data, (t - 1) * eInfo.BlockSize + 1,
                         (t - 1) * eInfo.BlockSize + StripeBytes(t)),
                  eInfo.DataBlocks, eInfo.ParityBlocks)[1]

RECURSIVE BlockStream(_, _)
\* Block k of the stripes 1..t, concatenated in stream order.
BlockStream(k, t) ==
  IF t = 0 THEN <<>> ELSE BlockStream(k, t - 1) \o StripeBlocks(t)[k]

\* C11: in every stripe disk i is appended with block distribution[i]-1 of
\* that stripe and with no other; two disks never get the same block index;
\* when appendFile has returned, the bytes of every call made so far are
\* those of block distribution[i]-1 of its stripe, and a disk whose appends
\* all succeeded holds block distribution[i]-1 of the stripes 1, 2, ... in
\* stream order.
C11_DistributionMapping ==
  [](IsValid(eInfo) =>
       /\ \A i \in Idx : \A p \in DOMAIN log[i] :
            /\ log[i][p].block = eInfo.Distribution[i] - 1
            /\ \A j \in Idx \ {i} : \A r \in DOMAIN log[j] :
                 log[j][r].block # log[i][p].block
       /\ AppendFileOver =>
            LET enBlocks == [t \in 1..stripe |-> StripeBlocks(t)]
            IN \A i \in Idx :
                 /\ \A p \in DOMAIN log[i] :
                      log[i][p].bytes
                        = enBlocks[log[i][p].stripe][eInfo.Distribution[i] - 1]
                 /\ (\A t \in 1..stripe : i \in WrittenIn(t))
                      => Written(log[i])
                           = BlockStream(eInfo.Distribution[i] - 1, stripe))

\* Two stripes are over and a disk holds its block of both, the first one a
\* data block that differs from the block of the same index as the disk.
C11_Witness ==
  /\ AppendFileOver
  /\ stripe = 2
  /\ \E i \in Idx :
       /\ i \in WrittenIn(1) /\ i \in WrittenIn(2)
       /\ Len(Written(log[i])) >= 2
       /\ StripeBlocks(1)[eInfo.Distribution[i] - 1] # StripeBlocks(1)[i]

\* The goroutine of disk i, and no other, takes a step that ends it.
EndsAlone(i) ==
  /\ task[i] \in {"inflight", "hash"}
  /\ task'[i] = "done"
  /\ \A j \in Idx \ {i} : task'[j] = task[j]

\* C12: under every interleaving of the goroutines of a stripe, the goroutine
\* of disk i writes only wErrs[i] and only the hash distribution[i]-1, which
\* no other goroutine of the stripe uses; wErrs is otherwise only replaced by
\* a fresh one when appendFile is entered, and appendFile leaves wg.Wait(),
\* to read wErrs for the verdict, only when every goroutine has ended.
C12_PartitionedState ==
  [][/\ \A k \in DOMAIN hashWriters :
          hashWriters'[k] # hashWriters[k]
            => \E i \in Idx :
                 /\ EndsAlone(i)
                 /\ task[i] = "hash"
                 /\ eInfo.Distribution[i] - 1 = k
                 /\ \A j \in Idx \ {i} :
                      task[j] # "none" => eInfo.Distribution[j] - 1 # k
     /\ \A i \in Idx :
          wErrs'[i] # wErrs[i]
            => \/ EndsAlone(i) /\ \A j \in Idx \ {i} : wErrs'[j] = wErrs[j]
               \/ pc = "read" /\ pc' = "spawn" /\ WaitOver(task)
     /\ (pc = "wait" /\ pc' # "wait") => WaitOver(task)]_vars

\* Two goroutines are between their append and their hash update at once,
\* and a third one has stored its error.
C12_Witness ==
  /\ pc = "wait"
  /\ \E i, j \in Idx : i # j /\ task[i] = "hash" /\ task[j] = "hash"
  /\ \E i \in Idx : task[i] = "done" /\ wErrs[i] # nil

\* The first stripe in which the AppendFile call of disk i returned an error
\* (0 when there is none).
FirstFailure(i) ==
  IF \E t \in 1..stripe : i \in FailedIn(t)
  THEN CHOOSE t \in 1..stripe :
         i \in FailedIn(t) /\ \A u \in 1..(t - 1) : i \notin FailedIn(u)
  ELSE 0

\* C13: after a successful write of several stripes, the hash of a disk whose
\* append returned an error in stripe t is the hash of its blocks of the
\* stripes before t only.
C13_FailedEndpointHash ==
  (Succeeded /\ IsValid(eInfo))
    => \A i \in Idx :
         FirstFailure(i) > 0
           => EncodeToString(Sum(hashWriters[eInfo.Distribution[i] - 1]))
                = DigestOf(BlockStream(eInfo.Distribution[i] - 1,
                                       FirstFailure(i) - 1))

\* The stream ends in a block of fewer than BlockSize bytes and io.ReadFull
\* has returned that block.
ShortBlockRead ==
  /\ IsValid(eInfo)
  /\ Len(data) % eInfo.BlockSize # 0
  /\ off = Len(data)

\* The number of the stripe of the short final block.
LastStripe == Len(data) \div eInfo.BlockSize + 1

\* C14 as stated: once the short final block has been read, the stream is not
\* read again (the read of the short block is the last call of io.ReadFull).
C14_NoReadAfterShortBlock == ShortBlockRead => reads = LastStripe

\* C14: the short final block buf[..n] is encoded and handed to appendFile, n
\* is added to the size, and the stream is then read once more: that read
\* ends the loop (io.EOF with size # 0, or the reader's error) without
\* another call of appendFile, and the loop is not left without it unless
\* appendFile returned an error.
C14_ShortFinalBlock ==
  [](ShortBlockRead
       => /\ size = Len(data)
          /\ stripe = LastStripe
          /\ blocks = StripeBlocks(LastStripe)
          /\ reads \in {LastStripe, LastStripe + 1}
          /\ reads = LastStripe + 1 => pc \in {"checksums", "infos", "done"}
          /\ pc \in {"checksums", "infos"} => reads = LastStripe + 1
          /\ (pc = "done" /\ reads = LastStripe) => ret.err = WriteQuorumLost
          /\ Succeeded => reads = LastStripe + 1)

\* A write of a full block and a short one has succeeded.
C14_Witness ==
  /\ ShortBlockRead
  /\ Succeeded
  /\ LastStripe = 2
  /\ reads = 3
  /\ ret.size = Len(data)

\* The number of AppendFile calls of disk i that returned in stripe t.
Calls(i, t) == Cardinality({p \in DOMAIN log[i] : log[i][p].stripe = t})

\* C15: a call of appendFile first starts the goroutines (pc "spawn"), then
\* waits for them (pc "wait") and then gives one verdict, nil or
\* errXLWriteQuorum, after which the stripe is not taken up again; in a stripe
\* every disk that is not nil gets exactly one AppendFile call, whether it
\* returns nil or an error, and a nil disk gets none.
C15_StripeStateMachine ==
  /\ [](\A i \in Idx :
          /\ \A t \in 1..stripe :
               Calls(i, t) =
                 IF disks[i] /\ (t < stripe \/ task[i] \in {"hash", "done"})
                 THEN 1 ELSE 0
          /\ pc = "spawn" => (task[i] # "none" <=> (disks[i] /\ i < index))
          /\ pc = "wait" => (task[i] # "none" <=> disks[i])
          /\ \A p \in DOMAIN log[i] : log[i][p].stripe \in 1..stripe)
  /\ [][/\ pc = "spawn" => pc' \in {"spawn", "wait"} /\ stripe' = stripe
        /\ pc' = "spawn" => (pc \in {"read", "spawn"}
                             /\ (pc = "read" => stripe' = stripe + 1))
        /\ pc' = "wait" => pc \in {"spawn", "wait"}
        /\ (pc = "wait" /\ pc' # "wait")
             => /\ WaitOver(task)
                /\ stripe' = stripe /\ task' = task /\ log' = log
                /\ \/ pc' \in {"read", "checksums"} /\ ret' = ret
                   \/ pc' = "done" /\ ret'.err = WriteQuorumLost
        /\ stripe' # stripe => pc' = "spawn"]_vars

\* A stripe met its quorum although an append failed in it, and the next
\* stripe is under way with an append returned and another in flight.
C15_Witness ==
  /\ pc = "wait"
  /\ stripe = 2
  /\ FailedIn(1) # {}
  /\ \E i, j \in Idx : task[i] = "inflight" /\ Calls(j, 2) = 1
  /\ \E i \in Idx : ~disks[i]

\* The wErrs that appendFile holds after wg.Wait() when the AppendFile calls
\* of the disks in F return an error and all the others return nil.
ErrSlots(F) == [i \in Idx |-> IF i \in F THEN <<"errDiskFull">> ELSE nil]

\* What appendFile returns (lines 158-161) when the calls of F fail.
Verdict(F) ==
  IF ~isQuorum(ErrSlots(F), writeQuorum) THEN WriteQuorumLost ELSE nil

\* C16: what appendFile returns for a stripe is decided by the set F of the
\* disks whose append failed in it, and when it returns nil for F it returns
\* nil for every set of fewer failing disks as well; so a write that succeeds
\* with its failures succeeds with fewer of them in any stripe.
C16_QuorumMonotonicity ==
  AppendFileOver
    => \A t \in 1..stripe :
         /\ (t < stripe \/ ret.err # WriteQuorumLost)
              <=> Verdict(FailedIn(t)) = nil
         /\ Verdict(FailedIn(t)) = nil
              => \A G \in SUBSET Present :
                   Cardinality(G) < Cardinality(FailedIn(t))
                     => Verdict(G) = nil

\* A write of two stripes has succeeded with a failed append, and one more
\* failure in that stripe would have lost the quorum.
C16_Witness ==
  /\ Succeeded
  /\ stripe = 2
  /\ \E t \in 1..2 :
       /\ FailedIn(t) # {}
       /\ \E i \in Present \ FailedIn(t) :
            Verdict(FailedIn(t) \cup {i}) = WriteQuorumLost

\* The disks that are not nil and whose input erasureInfo is not valid.
PresentInvalid == {i \in Present : ~IsValid(eInfos[i])}

\* C17: a disk that is not nil and whose input erasureInfo is not valid gets
\* its AppendFile call in every stripe like any other disk, with the block the
\* picked distribution gives it; a stripe in which writeQuorum appends
\* returned nil, those of such disks included, meets the quorum; and a
\* successful write returns the zero erasureInfo in the slot of such a disk.
C17_QuorumIgnoresValidity ==
  \A i \in PresentInvalid :
    /\ AppendFileOver
         => \A t \in 1..stripe :
              /\ Calls(i, t) = 1
              /\ \A p \in DOMAIN log[i] :
                   log[i][p].block = eInfo.Distribution[i] - 1
    /\ \A t \in 1..stripe :
         (AppendFileOver /\ i \in WrittenIn(t)
            /\ Cardinality(WrittenIn(t)) >= writeQuorum)
           => (t < stripe \/ ret.err # WriteQuorumLost)
    /\ Succeeded => ret.newEInfos[i] = ZeroInfo

\* Every disk is present, one of them has no valid erasureInfo, and the write
\* has succeeded with stripes that met the quorum only with the append of
\* that disk counted.
C17_Witness ==
  /\ Succeeded
  /\ Present = Idx
  /\ stripe = 2
  /\ \E i \in PresentInvalid :
       /\ ret.newEInfos[i] = ZeroInfo
       /\ \E j \in Idx : ret.newEInfos[j] # ZeroInfo
       /\ \A t \in 1..2 :
            /\ i \in WrittenIn(t)
            /\ Cardinality(WrittenIn(t)) = writeQuorum

\* C18: no step of the write changes eInfos or the checksum list of an input
\* erasureInfo; the step that appends the checksum entry to the output
\* erasureInfo of one disk leaves the output erasureInfos of the other disks
\* and their checksum lists as they were; and every valid disk's returned
\* erasureInfo ends with the entry of its own block.
C18_FreshOutput ==
  [][/\ eInfos' = eInfos
     /\ \A i \in Idx :
          Elems(heap', eInfos[i].Checksum) = Elems(heap, eInfos[i].Checksum)
     /\ pc = "infos"
          => \A j \in Idx \ {fidx} :
               /\ newEInfos'[j] = newEInfos[j]
               /\ Elems(heap', newEInfos[j].Checksum)
                    = Elems(heap, newEInfos[j].Checksum)
     /\ (pc' = "done" /\ ret'.err = nil)
          => \A j \in Idx :
               IsValid(eInfos[j])
                 => LET out == Elems(heap', ret'.newEInfos[j].Checksum)
                    IN out # <<>>
                         /\ out[Len(out)]
                              = checkSums[eInfos[j].Distribution[j] - 1]
    ]_vars

\* C19: a disk whose append failed in a stripe that met its quorum gets its
\* AppendFile call in the next stripe as well, with block distribution[i]-1
\* of that stripe, and its hash is the hash of the blocks of its successful
\* appends: those of later stripes are in it, that of the failed stripe is not.
C19_FailedDiskStaysInWrite ==
  IsValid(eInfo)
    => \A i \in Idx : \A t \in 1..(stripe - 1) :
         i \in FailedIn(t)
           => /\ (t + 1 < stripe \/ AppendFileOver)
                   => \E p \in DOMAIN log[i] :
                        /\ log[i][p].stripe = t + 1
                        /\ log[i][p].block = eInfo.Distribution[i] - 1
                        /\ log[i][p].bytes
                             = StripeBlocks(t + 1)[eInfo.Distribution[i] - 1]
              /\ AppendFileOver
                   => hashWriters[eInfo.Distribution[i] - 1]
                        = HashWrite(NewHash, Written(log[i]))

\* The append of a disk failed in stripe 1 and returned nil in stripe 2: its
\* hash is the hash of its block of stripe 2 alone.
C19_Witness ==
  /\ Succeeded
  /\ stripe = 2
  /\ \E i \in FailedIn(1) \cap WrittenIn(2) :
       /\ Written(log[i]) = StripeBlocks(2)[eInfo.Distribution[i] - 1]
       /\ Written(log[i]) # <<>>
       /\ hashWriters[eInfo.Distribution[i] - 1]
            # HashWrite(NewHash, BlockStream(eInfo.Distribution[i] - 1, 2))

\* ---------------------------------------------------------- termination
\* Writes with valid erasureInfos whose checksum lists are nil.
InitLive ==
  /\ Init
  /\ \A i \in Idx : IsValid(eInfos[i]) /\ eInfos[i].Checksum = NilSlice

\* The steps of erasureCreateFile and appendFile themselves.
MainStep ==
  \/ ReadEOF
  \/ ReadFail
  \/ ReadBlock
  \/ Spawn
  \/ Wait
  \/ SaveCheckSums
  \/ UpdateInfo
  \/ Return

\* The goroutine that runs the write is scheduled; every AppendFile call
\* returns, with nil or with an error; a goroutine whose call returned nil
\* goes on to its hash update.  The disks are 0..DataBlocks (one parity block).
Fairness ==
  /\ WF_vars(MainStep)
  /\ \A i \in 0..DataBlocks :
       /\ WF_vars(AppendFail(i) \/ AppendOk(i))
       /\ WF_vars(HashBlock(i))

SpecLive == InitLive /\ [][Next]_vars /\ Fairness

\* C20: when every AppendFile call returns, the write returns, with the
\* erasureInfos or with an error; it has returned only when every goroutine of
\* the last call of appendFile has ended; and while an AppendFile call has not
\* returned the write stays in wg.Wait() and returns nothing.
C20_Termination ==
  /\ <>(pc = "done" /\ (ret.err # nil \/ DOMAIN ret.newEInfos = Idx))
  /\ [](pc = "done" => WaitOver(task))
  /\ [][(pc = "wait" /\ \E i \in Idx : task[i] = "inflight")
          => (pc' = "wait" /\ ret' = ret)]_vars

\* A write of two stripes has returned, and every disk's call of the second
\* stripe had returned before.
C20_Witness ==
  /\ pc = "done"
  /\ stripe = 2
  /\ \A i \in Idx : Calls(i, 2) = 1 /\ task[i] = "done"

====
